---- MODULE Spec2Model ----
(***************************************************************************)
(* Model of the classroom assignment lister (src/main.go): the concurrent  *)
(* fan-out/fan-in over courses and assignments, and the visibility filter  *)
(* isCourseworkVisible with the calendar arithmetic of the time package.   *)
(* Instants are whole hours since 1970-01-01T00:00Z.                       *)
(***************************************************************************)
EXTENDS Integers, Sequences, FiniteSets, TLC

\* an optional value is a sequence of length 0 (nil) or 1
NIL == <<>>
Some(x) == <<x>>

(* ------------------------------------------------------------------ *)
(* Calendar arithmetic of the time package (proleptic Gregorian).      *)
(* ------------------------------------------------------------------ *)
HoursPerDay == 24

isLeap(year) == year % 4 = 0 /\ (year % 100 # 0 \/ year % 400 = 0)

daysIn(month, year) ==
  IF month = 2 THEN (IF isLeap(year) THEN 29 ELSE 28)
  ELSE IF month \in {4, 6, 9, 11} THEN 30 ELSE 31

\* days since 1970-01-01 of the civil date year-month-day
DaysFromCivil(year, month, day) ==
  LET y   == IF month <= 2 THEN year - 1 ELSE year
      era == y \div 400
      yoe == y - era * 400
      mp  == IF month > 2 THEN month - 3 ELSE month + 9
      doy == (153 * mp + 2) \div 5 + day - 1
      doe == yoe * 365 + yoe \div 4 - yoe \div 100 + doy
  IN  era * 146097 + doe - 719468

\* civil date of a day number (inverse of DaysFromCivil)
CivilFromDays(days) ==
  LET z   == days + 719468
      era == z \div 146097
      doe == z - era * 146097
      yoe == (doe - doe \div 1460 + doe \div 36524 - doe \div 146096) \div 365
      doy == doe - (365 * yoe + yoe \div 4 - yoe \div 100)
      mp  == (5 * doy + 2) \div 153
      d   == doy - (153 * mp + 2) \div 5 + 1
      m   == IF mp < 10 THEN mp + 3 ELSE mp - 9
      y   == yoe + era * 400 + (IF m <= 2 THEN 1 ELSE 0)
  IN  [Year |-> y, Month |-> m, Day |-> d]

\* the instant year-month-day hour:00 UTC
Instant(year, month, day, hour) ==
  DaysFromCivil(year, month, day) * HoursPerDay + hour

(* ------------------------------------------------------------------ *)
(* Strings are sequences of one-character strings.                     *)
(* ------------------------------------------------------------------ *)
DigitChar == <<"0", "1", "2", "3", "4", "5", "6", "7", "8", "9">>

isDigit(ch) == \E i \in 1..10 : DigitChar[i] = ch

DigitVal(ch) == (CHOOSE i \in 1..10 : DigitChar[i] = ch) - 1

RECURSIVE Digits(_)
Digits(n) == IF n < 10 THEN <<DigitChar[n + 1]>>
             ELSE Digits(n \div 10) \o <<DigitChar[(n % 10) + 1]>>

\* fmt verb %d
FmtD(n) == IF n < 0 THEN <<"-">> \o Digits(-n) ELSE Digits(n)

RECURSIVE ZeroPad(_, _)
ZeroPad(s, width) == IF Len(s) >= width THEN s ELSE ZeroPad(<<"0">> \o s, width)

\* fmt verb %02d: zero padding goes between the sign and the digits
Fmt02D(n) == IF n < 0 THEN <<"-">> \o ZeroPad(Digits(-n), 1)
             ELSE ZeroPad(Digits(n), 2)

\* fmt.Sprintf("%d-%02d-%02d", Year, Month, Day)
Sprintf(due) == FmtD(due.Year) \o <<"-">> \o Fmt02D(due.Month) \o <<"-">> \o Fmt02D(due.Day)

\* t.Format("2006-01-02") of an instant in the zone with offset loc hours
\* (the civil date is bound to its value before it is formatted)
Format(t, loc) ==
  CHOOSE s \in {ZeroPad(Digits(d.Year), 4) \o <<"-">> \o ZeroPad(Digits(d.Month), 2)
                  \o <<"-">> \o ZeroPad(Digits(d.Day), 2) :
                d \in {CivilFromDays((t + loc) \div HoursPerDay)}} : TRUE

RECURSIVE Atoi(_)
Atoi(s) == IF s = <<>> THEN 0 ELSE Atoi(SubSeq(s, 1, Len(s) - 1)) * 10 + DigitVal(s[Len(s)])

AllDigits(s) == \A i \in 1..Len(s) : isDigit(s[i])

\* the date of the fields year, month, day read by time.Parse
ParseFields(year, month, day) ==
  IF month < 1 \/ month > 12 THEN [ok |-> FALSE, t |-> 0]
  ELSE IF day < 1 \/ day > daysIn(month, year) THEN [ok |-> FALSE, t |-> 0]
  ELSE [ok |-> TRUE, t |-> Instant(year, month, day, 0)]

\* time.Parse("2006-01-02", s): [ok, t], t the instant of midnight UTC
\* (the three fields are bound to their values before they are checked)
Parse(s) ==
  LET bad == [ok |-> FALSE, t |-> 0]
  IN  IF Len(s) # 10 THEN bad
      ELSE IF ~AllDigits(SubSeq(s, 1, 4)) \/ s[5] # "-" THEN bad
      ELSE IF ~AllDigits(SubSeq(s, 6, 7)) \/ s[8] # "-" THEN bad
      ELSE IF ~AllDigits(SubSeq(s, 9, 10)) THEN bad
      ELSE CHOOSE r \in {ParseFields(year, month, day) :
                           year \in {Atoi(SubSeq(s, 1, 4))},
                           month \in {Atoi(SubSeq(s, 6, 7))},
                           day \in {Atoi(SubSeq(s, 9, 10))}} : TRUE

\* t.Truncate(24 * time.Hour): rounds down to a multiple of 24h since the zero time
Truncate(t) == t - (t % HoursPerDay)

\* a.Before(b)
Before(a, b) == a < b

(* ------------------------------------------------------------------ *)
(* Bounds and input domains.                                           *)
(* ------------------------------------------------------------------ *)
MaxVisTicks == 4     \* clock readings offered to the filter on its own
MaxTicks == 1        \* clock readings offered to a run of the program, less one
NumCourses == 2      \* length of courseIds
MaxWork == 2         \* assignments in one course's listing
MaxTotalWork == 2    \* assignments in all listings together
MaxSubs == 2         \* submission records per assignment

\* clock readings, ten hours apart, starting 2024-02-29T02:00Z
ClockAt(i) == Instant(2024, 2, 29, 2) + i * 10

\* offsets of the local zone from UTC, in hours
Zones == {-5, 0, 9}

Date(y, m, d) == [Year |-> y, Month |-> m, Day |-> d]

ValidDates == {Date(2024, 2, 27), Date(2024, 2, 28), Date(2024, 2, 29),
               Date(2024, 3, 1), Date(2024, 3, 2)}

\* dates the API can deliver that are no calendar date
BadDates == {Date(0, 0, 0), Date(2024, 2, 30), Date(2024, 13, 1), Date(10000, 1, 1)}

SubmissionStates == {"CREATED", "TURNED_IN", "RETURNED"}

RECURSIVE SeqsUpTo(_, _)
SeqsUpTo(S, n) ==
  IF n = 0 THEN {<<>>}
  ELSE LET shorter == SeqsUpTo(S, n - 1)
       IN  shorter \cup {Append(q, x) : q \in shorter, x \in S}

(* ------------------------------------------------------------------ *)
(* isCourseworkVisible, src/main.go:95-125.                            *)
(* ------------------------------------------------------------------ *)
\* lines 97-103: the date string; t1 is the clock at currentDate := time.Now()
EffectiveDate(c, t1, loc) ==
  IF c.DueDate # NIL THEN Sprintf(c.DueDate[1]) ELSE Format(t1, loc)

\* lines 97-105: parsedDate, err := time.Parse("2006-01-02", date), as [ok, t]
\* (the date string is bound to its value before it is parsed)
ParseDate(c, t1, loc) ==
  CHOOSE parsed \in {Parse(date) : date \in {EffectiveDate(c, t1, loc)}} : TRUE

\* line 110: currentDate := time.Now().Truncate(24 * time.Hour)
CurrentDate(t2) == Truncate(t2)

\* line 112: parsedDate.Before(currentDate)
Overdue(parsedDate, t2) == Before(parsedDate, CurrentDate(t2))

\* lines 119-123: some record of the response is TURNED_IN
anyTurnedIn(wr) ==
  \E i \in 1..Len(wr.StudentSubmissions) : wr.StudentSubmissions[i] = "TURNED_IN"

Result(visible, err, called) == [visible |-> visible, err |-> err, called |-> called]

\* the lookup with a loop that looks at the first record only
SubmissionCheck_FirstOnly(wr) ==
  IF wr.err THEN Result(FALSE, TRUE, TRUE)
  ELSE IF Len(wr.StudentSubmissions) > 0 /\ wr.StudentSubmissions[1] = "TURNED_IN"
       THEN Result(FALSE, FALSE, TRUE)
  ELSE Result(TRUE, FALSE, TRUE)

\* lines 115-124: the outcome of the submission lookup with response wr
SubmissionCheck(wr) ==
  IF wr.err THEN Result(FALSE, TRUE, TRUE)
  ELSE IF anyTurnedIn(wr) THEN Result(FALSE, FALSE, TRUE)
  ELSE Result(TRUE, FALSE, TRUE)

\* the whole function: clock readings t1 <= t2, zone loc, lookup response wr
isCourseworkVisible(c, t1, t2, loc, wr) ==
  LET parsed == ParseDate(c, t1, loc)
  IN  IF ~parsed.ok THEN Result(FALSE, TRUE, FALSE)
      ELSE IF Overdue(parsed.t, t2) THEN Result(FALSE, FALSE, FALSE)
      ELSE SubmissionCheck(wr)

\* the responses of StudentSubmissions.List: an error, or a list of states
Responses ==
  {[err |-> TRUE, StudentSubmissions |-> <<>>]}
    \cup {[err |-> FALSE, StudentSubmissions |-> q] : q \in SeqsUpTo(SubmissionStates, MaxSubs)}

(* ------------------------------------------------------------------ *)
(* The remote service: what the two list operations answer.            *)
(* ------------------------------------------------------------------ *)
OkSubs(q) == [err |-> FALSE, StudentSubmissions |-> q]
ErrSubs == [err |-> TRUE, StudentSubmissions |-> <<>>]

\* an assignment as the service holds it: its due date and the answer to
\* the submission lookup for it
Profile(due, wr) == [DueDate |-> due, wr |-> wr]

Profiles ==
  { Profile(Some(Date(2024, 3, 2)),  OkSubs(<<>>)),
    Profile(Some(Date(2024, 2, 27)), OkSubs(<<>>)),
    Profile(NIL,                     OkSubs(<<"CREATED", "TURNED_IN">>)) }

\* the zones the program is run in: one west and one east of UTC
ProgZones == {-5, 9}

\* the answers of CourseWork.List for one course
ListResponses ==
  {[err |-> TRUE, work |-> <<>>]}
    \cup {[err |-> FALSE, work |-> q] : q \in SeqsUpTo(Profiles, MaxWork)}

RECURSIVE SumWork(_, _)
SumWork(rem, n) == IF n = 0 THEN 0 ELSE SumWork(rem, n - 1) + Len(rem[n].work)

(* ------------------------------------------------------------------ *)
(* State.                                                              *)
(* ------------------------------------------------------------------ *)
VARIABLES
  vin,       \* the inputs of one call of the filter on its own
  vpc,       \* "call" before that call, "ret" after it
  vout,      \* its result
  courseIds, \* _main: the course list
  remote,    \* the service's answer for each course
  loc,       \* offset of time.Local from UTC, hours
  perIter,   \* TRUE when the build gives each loop iteration its own c
  clock,     \* NIL: the clock runs; Some(t): every reading of a run is t
  seq,       \* the sequential program: position, indices, lines written
  proc,      \* "running", "exit0" (main returned) or "exit1" (os.Exit(1))
  mainPc,    \* position of _main
  mainI,     \* _main: index of the course of the current iteration
  wg,        \* _main: the WaitGroup counter
  closerPc,  \* the closing goroutine
  closed,    \* ch is closed
  printed,   \* lines written by _main, counted per assignment
  wk,        \* per course: the worker goroutine
  chk        \* per course and index: the goroutine of that iteration

vars == <<vin, vpc, vout, courseIds, remote, loc, perIter, clock, seq, proc,
          mainPc, mainI, wg, closerPc, closed, printed, wk, chk>>

visVars == <<vin, vpc, vout>>
envVars == <<courseIds, remote, loc, perIter, clock>>
progVars == <<proc, mainPc, mainI, wg, closerPc, closed, printed, wk, chk>>

Courses == 1..Len(courseIds)
Work(w) == 1..Len(remote[w].work)

\* r.CourseWork[k] of course w
CourseWork(w, k) == [Id |-> <<w, k>>, CourseId |-> w, DueDate |-> remote[w].work[k].DueDate]

\* the assignment with identifier id
ById(id) == CourseWork(id[1], id[2])

\* StudentSubmissions.List(c.CourseId, c.Id).Do()
Submissions(c) == remote[c.CourseId].work[c.Id[2]].wr

NoResult == Result(FALSE, FALSE, FALSE)

\* the sequential program not run
SeqIdle == [pc |-> "idle", i |-> 1, k |-> 1, out |-> <<>>]

(* ------------------------------------------------------------------ *)
(* The filter on its own: one call on inputs drawn from the domains.   *)
(* ------------------------------------------------------------------ *)
VisInputs ==
  [c   : [DueDate : {NIL} \cup {Some(d) : d \in ValidDates \cup BadDates}],
   wr  : Responses,
   loc : Zones,
   i1  : 0..MaxVisTicks,
   i2  : 0..MaxVisTicks]

\* the program at rest: no course, nothing started
Idle ==
  /\ courseIds = <<>>
  /\ remote = <<>>
  /\ loc = 0
  /\ perIter = TRUE
  /\ clock = NIL
  /\ seq = SeqIdle
  /\ proc = "running"
  /\ mainPc = "for"
  /\ mainI = 1
  /\ wg = 0
  /\ closerPc = "none"
  /\ closed = FALSE
  /\ printed = <<>>
  /\ wk = <<>>
  /\ chk = <<>>

InitVis ==
  /\ vin \in {x \in VisInputs : x.i1 <= x.i2}
  /\ vpc = "call"
  /\ vout = NoResult
  /\ Idle

VisCall ==
  /\ vpc = "call"
  /\ vpc' = "ret"
  /\ vout' = isCourseworkVisible(vin.c, ClockAt(vin.i1), ClockAt(vin.i2), vin.loc, vin.wr)
  /\ UNCHANGED <<vin, seq, envVars, progVars>>

NextVis == VisCall

SpecVis == InitVis /\ [][NextVis]_vars

(* ------------------------------------------------------------------ *)
(* The program: _main, src/main.go:181-196.                            *)
(* ------------------------------------------------------------------ *)
Init ==
  /\ vin = [c |-> [DueDate |-> NIL], wr |-> ErrSubs, loc |-> 0, i1 |-> 0, i2 |-> 0]
  /\ vpc = "ret"
  /\ vout = NoResult
  /\ courseIds \in {[i \in 1..n |-> i] : n \in 0..NumCourses}
  /\ remote \in {rem \in [Courses -> ListResponses] :
                   SumWork(rem, Len(courseIds)) <= MaxTotalWork}
  /\ loc \in ProgZones
  /\ perIter \in BOOLEAN
  /\ clock = NIL
  /\ seq = SeqIdle
  /\ proc = "running"
  /\ mainPc = "for"
  /\ mainI = 1
  /\ wg = 0
  /\ closerPc = "none"
  /\ closed = FALSE
  /\ printed = [w \in Courses |-> [k \in Work(w) |-> 0]]
  /\ wk = [w \in Courses |-> [pc |-> "none", k |-> 1, c |-> NIL, wg2 |-> 0]]
  /\ chk = [w \in Courses |->
             [k \in Work(w) |->
               [pc |-> "none", c |-> NIL, res |-> NoResult, send |-> NIL]]]

\* a worker started without wg.Add(1)
MainGo_NoAdd ==
  /\ proc = "running"
  /\ mainPc = "for"
  /\ mainI <= Len(courseIds)
  /\ wk' = [wk EXCEPT ![mainI].pc = "list"]
  /\ mainI' = mainI + 1
  /\ UNCHANGED <<visVars, seq, envVars, proc, mainPc, wg, closerPc, closed, printed, chk>>

\* lines 185-186: wg.Add(1); go listCourseWorkFromCourseId(...)
MainGo ==
  /\ proc = "running"
  /\ mainPc = "for"
  /\ mainI <= Len(courseIds)
  /\ wg' = wg + 1
  /\ wk' = [wk EXCEPT ![mainI].pc = "list"]
  /\ mainI' = mainI + 1
  /\ UNCHANGED <<visVars, seq, envVars, proc, mainPc, closerPc, closed, printed, chk>>

\* a main goroutine that goes on to the range loop without starting the
\* closing goroutine
MainGoCloser_NoCloser ==
  /\ proc = "running"
  /\ mainPc = "for"
  /\ mainI > Len(courseIds)
  /\ mainPc' = "range"
  /\ UNCHANGED <<visVars, seq, envVars, proc, mainI, wg, closerPc, closed, printed, wk, chk>>

\* lines 184 and 188-192: after the loop over courseIds,
\* go func() { wg.Wait(); close(ch) }()
MainGoCloser ==
  /\ proc = "running"
  /\ mainPc = "for"
  /\ mainI > Len(courseIds)
  /\ closerPc' = "wait"
  /\ mainPc' = "range"
  /\ UNCHANGED <<visVars, seq, envVars, proc, mainI, wg, closed, printed, wk, chk>>

\* a closing goroutine that does not wait for the workers
CloserClose_NoWait ==
  /\ proc = "running"
  /\ closerPc = "wait"
  /\ closed' = TRUE
  /\ closerPc' = "end"
  /\ UNCHANGED <<visVars, seq, envVars, proc, mainPc, mainI, wg, printed, wk, chk>>

\* lines 190-191: wg.Wait() returns and ch is closed
CloserClose ==
  /\ proc = "running"
  /\ closerPc = "wait"
  /\ wg = 0
  /\ closed' = TRUE
  /\ closerPc' = "end"
  /\ UNCHANGED <<visVars, seq, envVars, proc, mainPc, mainI, wg, printed, wk, chk>>

\* line 194: range over the closed ch ends; _main returns and the process exits
MainReturn ==
  /\ proc = "running"
  /\ mainPc = "range"
  /\ closed
  /\ mainPc' = "return"
  /\ proc' = "exit0"
  /\ UNCHANGED <<visVars, seq, envVars, mainI, wg, closerPc, closed, printed, wk, chk>>

(* ------------------------------------------------------------------ *)
(* listCourseWorkFromCourseId, src/main.go:72-93.                      *)
(* ------------------------------------------------------------------ *)
\* a listing error that returns from the function instead of ending the process
AfterList_Return(resp) ==
  IF resp.err THEN "wait2"
  ELSE IF Len(resp.work) <= 0 THEN "wait2"
  ELSE "range"

\* an empty listing that returns without the deferred wg.Done
AfterList_EmptyNoDone(resp) ==
  IF resp.err THEN "fatalf"
  ELSE IF Len(resp.work) <= 0 THEN "end"
  ELSE "range"

\* lines 75-81: the listing returns; what the worker does next
AfterList(resp) ==
  IF resp.err THEN "fatalf"
  ELSE IF Len(resp.work) <= 0 THEN "wait2"
  ELSE "range"

\* the statement the worker of course w is at: a worker that has not acted
\* yet gets the answer of the listing, lines 75-81, with its first step
At(w) == IF wk[w].pc = "list" THEN AfterList(remote[w]) ELSE wk[w].pc

\* line 77: log.Fatalf ends the process with os.Exit(1); no deferred call runs
Fatalf(w) ==
  /\ proc = "running"
  /\ At(w) = "fatalf"
  /\ proc' = "exit1"
  /\ UNCHANGED <<visVars, seq, envVars, mainPc, mainI, wg, closerPc, closed, printed, wk, chk>>

\* lines 84-86: one iteration: c is set, wg2.Add(1), the goroutine is started;
\* after the last one the function returns into its deferred wg2.Wait()
RangeWork(w) ==
  /\ proc = "running"
  /\ At(w) = "range"
  /\ LET k == wk[w].k
     IN  /\ wk' = [wk EXCEPT ![w].c = CourseWork(w, k).Id,
                             ![w].wg2 = @ + 1,
                             ![w].k = k + 1,
                             ![w].pc = IF k = Len(remote[w].work) THEN "wait2" ELSE "range"]
         /\ chk' = [chk EXCEPT ![w][k].pc = "call"]
  /\ UNCHANGED <<visVars, seq, envVars, proc, mainPc, mainI, wg, closerPc, closed, printed>>

\* a worker that does not wait for its checks
WgDone_NoWait(w) ==
  /\ proc = "running"
  /\ At(w) = "wait2"
  /\ wg' = wg - 1
  /\ wk' = [wk EXCEPT ![w].pc = "end"]
  /\ UNCHANGED <<visVars, seq, envVars, proc, mainPc, mainI, closerPc, closed, printed, chk>>

\* lines 83 and 74: the deferred calls run in reverse order: wg2.Wait()
\* returns, then wg.Done()
WgDone(w) ==
  /\ proc = "running"
  /\ At(w) = "wait2"
  /\ wk[w].wg2 = 0
  /\ wg' = wg - 1
  /\ wk' = [wk EXCEPT ![w].pc = "end"]
  /\ UNCHANGED <<visVars, seq, envVars, proc, mainPc, mainI, closerPc, closed, printed, chk>>

(* ------------------------------------------------------------------ *)
(* The goroutine of one iteration, src/main.go:86-91, and the call of  *)
(* isCourseworkVisible it makes.                                       *)
(* ------------------------------------------------------------------ *)
\* a read of the loop variable c by the goroutine of iteration k of course w:
\* its own iteration's c, or the one c all iterations share
ReadC(w, k) == IF perIter THEN CourseWork(w, k).Id ELSE wk[w].c

\* line 88: isVisible && err == nil
Publishes(res) == res.visible /\ ~res.err

\* a goroutine that ends without wg2.Done()
Wg2Done_NoDone(n) == n

\* line 87: the deferred wg2.Done()
Wg2Done(n) == n - 1

\* lines 87-90: the call has returned res.  When it publishes, the operand c
\* of ch <- c is evaluated and the goroutine waits for the receiver;
\* otherwise the goroutine returns through its deferred wg2.Done().
Returned(w, k, res) ==
  IF Publishes(res)
  THEN /\ chk' = [chk EXCEPT ![w][k].res = res, ![w][k].send = ReadC(w, k), ![w][k].pc = "send"]
       /\ UNCHANGED wk
  ELSE /\ chk' = [chk EXCEPT ![w][k].res = res, ![w][k].pc = "end"]
       /\ wk' = [wk EXCEPT ![w].wg2 = Wg2Done(@)]

\* the instants the clock can show
Instants == {ClockAt(i) : i \in 0..MaxTicks}

\* the readings of time.Now(): the wall clock can be set between two readings,
\* so no order among the readings of a run is assumed; runs that are compared
\* under the same clock read one instant throughout
Readings == IF clock = NIL THEN Instants ELSE {clock[1]}

\* lines 109-114: the date check with the clock read t2: the result returned
\* before the lookup, or none and the lookup is next
DateCheck(parsed, t2) ==
  IF ~parsed.ok THEN Some(Result(FALSE, TRUE, FALSE))
  ELSE IF Overdue(parsed.t, t2) THEN Some(Result(FALSE, FALSE, FALSE))
  ELSE NIL

\* the readings of the clock at line 101: none is made with a due date
Readings1(c) == IF c.DueDate # NIL THEN {ClockAt(0)} ELSE Readings

\* line 88 and lines 97-114: the argument c of the call is evaluated, the
\* date string is formed from its due date or from a reading of the clock,
\* parsed, and compared with a second reading
ChkCall(w, k) ==
  /\ proc = "running"
  /\ chk[w][k].pc = "call"
  /\ \E c \in {ReadC(w, k)} :
       \E r \in {DateCheck(parsed, t2) :
                  parsed \in {ParseDate(ById(c), t1, loc) : t1 \in Readings1(ById(c))},
                  t2 \in Readings} :
         IF r # NIL
         THEN Returned(w, k, r[1])
         ELSE /\ chk' = [chk EXCEPT ![w][k].c = c, ![w][k].pc = "lookup"]
              /\ UNCHANGED wk
  /\ UNCHANGED <<visVars, seq, envVars, proc, mainPc, mainI, wg, closerPc, closed, printed>>

\* lines 115-124: the submission lookup returns
ChkLookup(w, k) ==
  /\ proc = "running"
  /\ chk[w][k].pc = "lookup"
  /\ Returned(w, k, SubmissionCheck(Submissions(ById(chk[w][k].c))))
  /\ UNCHANGED <<visVars, seq, envVars, proc, mainPc, mainI, wg, closerPc, closed, printed>>

\* lines 194-195 with lines 89 and 87: the unbuffered ch hands one value from
\* the sender chk[w][k] to _main, which prints its line; the sender returns
\* through its deferred wg2.Done()
MainRecv(w, k) ==
  /\ proc = "running"
  /\ mainPc = "range"
  /\ ~closed
  /\ chk[w][k].pc = "send"
  /\ LET id == chk[w][k].send
     IN  printed' = [printed EXCEPT ![id[1]][id[2]] = @ + 1]
  /\ chk' = [chk EXCEPT ![w][k].pc = "end"]
  /\ wk' = [wk EXCEPT ![w].wg2 = Wg2Done(@)]
  /\ UNCHANGED <<visVars, seq, envVars, proc, mainPc, mainI, wg, closerPc, closed>>

Next ==
  \/ MainGo
  \/ MainGoCloser
  \/ CloserClose
  \/ MainReturn
  \/ \E w \in Courses : \E k \in Work(w) : MainRecv(w, k)
  \/ \E w \in Courses : WgDone(w)
  \/ \E w \in Courses : Fatalf(w)
  \/ \E w \in Courses : RangeWork(w)
  \/ \E w \in Courses : \E k \in Work(w) : ChkLookup(w, k)
  \/ \E w \in Courses : \E k \in Work(w) : ChkCall(w, k)

Spec == Init /\ [][Next]_vars

\* goroutines are scheduled fairly: a step that stays possible is taken.
\* The zone plays no part in the scheduling; the fair runs are taken in one.
InitFair == Init /\ loc = 9

FairSpec == InitFair /\ [][Next]_vars /\ WF_vars(Next)

(* ------------------------------------------------------------------ *)
(* The sequential program: main, src/main.go:300-333.  It applies the  *)
(* date check only and writes its lines itself.                        *)
(* ------------------------------------------------------------------ *)
\* lines 310 and 331-332: on to the next assignment, or to the next course
SeqAdvance(sq) ==
  IF sq.k = Len(remote[sq.i].work)
  THEN [sq EXCEPT !.pc = "for", !.i = @ + 1]
  ELSE [sq EXCEPT !.k = @ + 1]

\* lines 300-309: the listing of the next course: fatal on an error, nothing
\* to do for an empty listing
SeqList ==
  /\ seq.pc = "for"
  /\ seq.i <= Len(courseIds)
  /\ seq' = IF remote[seq.i].err THEN [seq EXCEPT !.pc = "exit1"]
            ELSE IF Len(remote[seq.i].work) <= 0 THEN [seq EXCEPT !.i = @ + 1]
            ELSE [seq EXCEPT !.pc = "range", !.k = 1]
  /\ UNCHANGED <<visVars, envVars, progVars>>

\* lines 300 and 333: the loop over courseIds ends and main returns
SeqReturn ==
  /\ seq.pc = "for"
  /\ seq.i > Len(courseIds)
  /\ seq' = [seq EXCEPT !.pc = "done"]
  /\ UNCHANGED <<visVars, envVars, progVars>>

\* lines 310-331: one assignment: main returns when its date does not parse,
\* skips it when it is overdue, writes its line otherwise
SeqItem ==
  /\ seq.pc = "range"
  /\ \E c \in {CourseWork(seq.i, seq.k)} :
       \E r \in {DateCheck(parsed, t2) :
                  parsed \in {ParseDate(c, t1, loc) : t1 \in Readings1(c)},
                  t2 \in Readings} :
         seq' = IF r = NIL THEN SeqAdvance([seq EXCEPT !.out = Append(@, c.Id)])
                ELSE IF r[1].err THEN [seq EXCEPT !.pc = "parse"]
                ELSE SeqAdvance(seq)
  /\ UNCHANGED <<visVars, envVars, progVars>>

SeqEnded == seq.pc \in {"done", "parse", "exit1"}

(* ------------------------------------------------------------------ *)
(* Both programs on the same data under one clock: the sequential one  *)
(* is run first, then the concurrent one.                              *)
(* ------------------------------------------------------------------ *)
\* the local calendar day, as a day number, of the instant t in zone z
LocalDayOf(t, z) == (t + z) \div HoursPerDay

DateOfDay(day) == CHOOSE d \in {Date(x.Year, x.Month, x.Day) : x \in {CivilFromDays(day)}} : TRUE

\* lookups that fail, dates that are none, and no due date with no submission
Profiles2 ==
  Profiles \cup
  { Profile(Some(Date(2024, 3, 2)),  ErrSubs),
    Profile(Some(Date(2024, 2, 30)), OkSubs(<<>>)),
    Profile(NIL,                     OkSubs(<<>>)) }

ListResponses2 ==
  {[err |-> TRUE, work |-> <<>>]}
    \cup {[err |-> FALSE, work |-> q] : q \in SeqsUpTo(Profiles2, MaxWork)}

\* one course with A1 due yesterday, A2 due tomorrow, both without submission,
\* A3 without due date and turned in, A4 without due date or submission
Scenario(today) ==
  [err |-> FALSE,
   work |-> << Profile(Some(DateOfDay(today - 1)), OkSubs(<<>>)),
               Profile(Some(DateOfDay(today + 1)), OkSubs(<<>>)),
               Profile(NIL, OkSubs(<<"TURNED_IN">>)),
               Profile(NIL, OkSubs(<<>>)) >>]

Init2 ==
  /\ vin = [c |-> [DueDate |-> NIL], wr |-> ErrSubs, loc |-> 0, i1 |-> 0, i2 |-> 0]
  /\ vpc = "ret"
  /\ vout = NoResult
  /\ courseIds \in {[i \in 1..n |-> i] : n \in 0..NumCourses}
  /\ loc \in ProgZones
  /\ perIter \in BOOLEAN
  /\ clock \in {Some(t) : t \in Instants}
  /\ remote \in {rem \in [Courses -> ListResponses2] :
                   SumWork(rem, Len(courseIds)) <= MaxTotalWork}
                \cup (IF Len(courseIds) = 1
                      THEN {<<Scenario(LocalDayOf(clock[1], loc))>>} ELSE {})
  /\ seq = [pc |-> "for", i |-> 1, k |-> 1, out |-> <<>>]
  /\ proc = "running"
  /\ mainPc = "for"
  /\ mainI = 1
  /\ wg = 0
  /\ closerPc = "none"
  /\ closed = FALSE
  /\ printed = [w \in Courses |-> [k \in Work(w) |-> 0]]
  /\ wk = [w \in Courses |-> [pc |-> "none", k |-> 1, c |-> NIL, wg2 |-> 0]]
  /\ chk = [w \in Courses |->
             [k \in Work(w) |->
               [pc |-> "none", c |-> NIL, res |-> NoResult, send |-> NIL]]]

Next2 ==
  \/ SeqList
  \/ SeqReturn
  \/ SeqItem
  \/ SeqEnded /\ Next

Spec2 == Init2 /\ [][Next2]_vars

(* ------------------------------------------------------------------ *)
(* Properties.                                                         *)
(* ------------------------------------------------------------------ *)
\* the goroutine of iteration k of course w has evaluated the operand of ch <- c
Sending(w, k) == chk[w][k].send # NIL

\* the call of isCourseworkVisible of that goroutine has returned
HasReturned(w, k) == chk[w][k].pc \in {"send", "end"}

AllEnded ==
  /\ \A w \in Courses : wk[w].pc = "end"
  /\ \A w \in Courses : \A k \in Work(w) : chk[w][k].pc = "end"

\* C1: a run that completes normally has printed exactly one line for every
\* assignment whose check returned (true, nil) and none for any other, and
\* every goroutine publishes the assignment of its own iteration.
C1_OneLinePerVisible ==
  /\ \A w \in Courses : \A k \in Work(w) :
       Sending(w, k) => chk[w][k].send = CourseWork(w, k).Id
  /\ proc = "exit0" =>
       \A w \in Courses : \A k \in Work(w) :
         printed[w][k] = IF Publishes(chk[w][k].res) THEN 1 ELSE 0

\* C2: whatever is sent on ch is an assignment for which a call of
\* isCourseworkVisible has returned (true, nil), and a goroutine sends only
\* after its own call has returned (true, nil).
C2_SentIsVisible ==
  \A w \in Courses : \A k \in Work(w) :
    Sending(w, k) =>
      /\ HasReturned(w, k)
      /\ Publishes(chk[w][k].res)
      /\ \E w2 \in Courses : \E k2 \in Work(w2) :
           /\ HasReturned(w2, k2)
           /\ chk[w2][k2].c = chk[w][k].send
           /\ Publishes(chk[w2][k2].res)

\* C3: ch is closed only after every worker has signalled wg.Done and every
\* check goroutine has finished; no send is pending on the closed ch, and
\* _main stops reading only when ch is closed and no send is pending.
C3_CloseAfterProducers ==
  /\ closed => AllEnded
  /\ mainPc = "return" => closed /\ AllEnded

W3_ClosedAfterSend ==
  /\ closed
  /\ Len(courseIds) = NumCourses
  /\ \E w \in Courses : \E k \in Work(w) : printed[w][k] > 0

NoListingError == \A w \in Courses : ~remote[w].err

Terminated ==
  /\ proc = "exit0"
  /\ closed
  /\ closerPc = "end"
  /\ AllEnded

\* C4: when no listing fails and goroutines are scheduled fairly, the run
\* ends: every send is received, ch is closed by the closing goroutine, the
\* range loop ends and _main returns.
C4_Terminates == NoListingError ~> Terminated

W4_TerminatedAfterSends ==
  /\ Terminated
  /\ \E w \in Courses : \E k \in Work(w) : \E w2 \in Courses : \E k2 \in Work(w2) :
       <<w, k>> # <<w2, k2>> /\ Sending(w, k) /\ Sending(w2, k2)

\* C5: a worker has signalled wg.Done only when every check goroutine of its
\* course has returned, those that had to send included.
C5_DoneAfterChecks ==
  \A w \in Courses :
    wk[w].pc = "end" => \A k \in Work(w) : chk[w][k].pc = "end"

W5_DoneAfterSend ==
  \E w \in Courses :
    /\ wk[w].pc = "end"
    /\ \E k \in Work(w) : Sending(w, k)

\* the local calendar day (as a day number) of the clock reading i in zone z
LocalDay(i, z) == (ClockAt(i) + z) \div HoursPerDay

HasValidDue(c) == c.DueDate # NIL /\ c.DueDate[1] \in ValidDates

DueDay(c) == DaysFromCivil(c.DueDate[1].Year, c.DueDate[1].Month, c.DueDate[1].Day)

\* the filter has been called on an assignment due today or later, today
\* being the local calendar date when the filter reads the clock
DueTodayOrLater ==
  /\ vpc = "ret"
  /\ HasValidDue(vin.c)
  /\ DueDay(vin.c) >= LocalDay(vin.i2, vin.loc)

StatesOf(wr) == {wr.StudentSubmissions[i] : i \in DOMAIN wr.StudentSubmissions}

\* C6: an assignment due strictly before the local calendar date is never
\* visible, whatever the time of day, the zone and the submissions.
C6_OverdueNotVisible ==
  (vpc = "ret" /\ HasValidDue(vin.c) /\ DueDay(vin.c) < LocalDay(vin.i2, vin.loc))
    => ~vout.visible

\* C7: an assignment without due date always passes the date check, whatever
\* the two clock readings: the filter goes on to the submission lookup.
C7_NoDueDatePasses ==
  (vpc = "ret" /\ vin.c.DueDate = NIL) => vout.called

\* C8: an assignment due today or later whose submission records hold no
\* TURNED_IN is visible.
C8_OpenIsVisible ==
  (DueTodayOrLater /\ ~vin.wr.err /\ "TURNED_IN" \notin StatesOf(vin.wr))
    => (vout.visible /\ ~vout.err)

\* C9: an assignment due today or later with a TURNED_IN record at any
\* position of the response is not visible, and no error is returned.
C9_TurnedInNotVisible ==
  (DueTodayOrLater /\ ~vin.wr.err /\ "TURNED_IN" \in StatesOf(vin.wr))
    => (~vout.visible /\ ~vout.err)

W9_TurnedInSecond ==
  /\ DueTodayOrLater
  /\ ~vin.wr.err
  /\ Len(vin.wr.StudentSubmissions) = 2
  /\ vin.wr.StudentSubmissions[1] # "TURNED_IN"
  /\ vin.wr.StudentSubmissions[2] = "TURNED_IN"
  /\ vout.called

SomeListingFails == \E w \in Courses : remote[w].err

LookupFails(w, k) == Submissions(CourseWork(w, k)).err

\* the assignment with identifier id has been handed to ch by some goroutine
Published(id) == \E w \in Courses : \E k \in Work(w) : chk[w][k].send = id

\* C11: an assignment whose submission lookup fails is never published nor
\* printed; the goroutine whose lookup failed ends through wg2.Done without a
\* send, and the failure does not end the process.
C11_LookupErrorSwallowed ==
  /\ \A w \in Courses : \A k \in Work(w) :
       LookupFails(w, k) => (printed[w][k] = 0 /\ ~Published(<<w, k>>))
  /\ \A w \in Courses : \A k \in Work(w) :
       (chk[w][k].res.called /\ chk[w][k].res.err) => chk[w][k].pc = "end"
  /\ NoListingError => proc # "exit1"

\* the listing of course w succeeds and holds no assignment
IsEmpty(w) == w \in Courses /\ ~remote[w].err /\ Len(remote[w].work) = 0

\* C12: the worker of a course with an empty listing starts no check and
\* raises no error; it signals wg.Done no more than once, and a run without
\* listing error that has such a course ends with every worker having
\* signalled, ch closed and _main returned.
C12_EmptyCourseCompletes ==
  /\ [](\A w \in 1..NumCourses :
          IsEmpty(w) => (wk[w].pc \in {"none", "list", "end"} /\ wk[w].wg2 = 0))
  /\ [][\A w \in 1..NumCourses :
          IsEmpty(w) =>
            /\ (wk[w].pc = "end" => wk'[w].pc = "end")
            /\ (wk[w].pc # "end" /\ wk'[w].pc = "end" => wg' = wg - 1)]_vars
  /\ ((NoListingError /\ \E w \in 1..NumCourses : IsEmpty(w)) ~> Terminated)

W12_EndedWithEmptyCourse ==
  /\ Terminated
  /\ \E w \in Courses : IsEmpty(w)
  /\ \E w \in Courses : \E k \in Work(w) : printed[w][k] > 0

\* the run is that of the one course with A1..A4 of Scenario
IsScenario ==
  /\ Len(courseIds) = 1
  /\ remote[1] = Scenario(LocalDayOf(clock[1], loc))

\* C13: with the one course holding A1 (due yesterday), A2 (due tomorrow),
\* A3 (no due date, turned in) and A4 (no due date, no submission), no line
\* is ever printed for A1 or A3, never more than one for A2 or A4, and the run
\* that has ended has printed exactly one line for A2 and one for A4.
C13_ScenarioPrintsA2A4 ==
  IsScenario =>
    /\ \A k \in 1..4 : printed[1][k] <= <<0, 1, 0, 1>>[k]
    /\ proc = "exit0" => printed[1] = <<0, 1, 0, 1>>

\* the day of the effective due date of the call: the due date, or without
\* one the local date at the first clock reading
EffectiveDay ==
  IF vin.c.DueDate = NIL THEN LocalDay(vin.i1, vin.loc) ELSE DueDay(vin.c)

\* C14: for an assignment whose effective due date is before the local
\* calendar date the filter returns (false, nil) and has not called the
\* submission lookup, whatever that lookup would answer.
C14_OverdueSkipsLookup ==
  (/\ vpc = "ret"
   /\ (vin.c.DueDate = NIL \/ HasValidDue(vin.c))
   /\ EffectiveDay < LocalDay(vin.i2, vin.loc))
    => (~vout.visible /\ ~vout.err /\ ~vout.called)

\* the due date of the assignment k of course w is no calendar date
BadDue(w, k) ==
  /\ remote[w].work[k].DueDate # NIL
  /\ remote[w].work[k].DueDate[1] \in BadDates

\* the assignment a comes before the assignment b in the order of the listings
Precedes(a, b) == a[1] < b[1] \/ (a[1] = b[1] /\ a[2] < b[2])

\* C15: in the concurrent program the check of an assignment whose due date
\* does not parse returns (false, error) before any lookup, nothing is
\* published or printed for it and the process goes on; the sequential
\* program returns at that assignment: it has printed nothing that comes
\* after it, and it runs to the end of the course list only when there is none.
C15_BadDatePerCallSite ==
  /\ \A w \in Courses : \A k \in Work(w) :
       BadDue(w, k) =>
         /\ HasReturned(w, k) => (chk[w][k].res = Result(FALSE, TRUE, FALSE)
                                   /\ chk[w][k].pc = "end")
         /\ printed[w][k] = 0
         /\ ~Published(<<w, k>>)
  /\ NoListingError => proc # "exit1"
  /\ \A w \in Courses : \A k \in Work(w) :
       BadDue(w, k) =>
         /\ seq.pc # "done"
         /\ \A n \in 1..Len(seq.out) : ~Precedes(<<w, k>>, seq.out[n])
  /\ seq.pc = "parse" => BadDue(seq.i, seq.k)

\* the workers that are started and have not signalled wg.Done
LiveWorkers == {w \in Courses : wk[w].pc \notin {"none", "end"}}

\* the check goroutines of course w that are started and have not ended
LiveChecks(w) == {k \in Work(w) : chk[w][k].pc \notin {"none", "end"}}

\* C16: wg counts the workers started and not yet done and each wg2 the check
\* goroutines started and not yet ended, so neither is ever negative and no
\* Done comes twice; the closing goroutine starts waiting only when every
\* worker is registered, and neither wait has returned while a goroutine it
\* waits for is still live or not yet started.
C16_RegisteredBeforeWait ==
  /\ wg >= 0
  /\ wg = Cardinality(LiveWorkers)
  /\ \A w \in Courses :
       /\ wk[w].wg2 >= 0
       /\ wk[w].wg2 = Cardinality(LiveChecks(w))
       /\ (wk[w].pc = "end" => \A k \in Work(w) : chk[w][k].pc = "end")
       /\ \A k \in Work(w) : chk[w][k].pc # "none" => k < wk[w].k
  /\ closerPc # "none" => \A w \in Courses : wk[w].pc # "none"
  /\ closerPc = "end" => \A w \in Courses : wk[w].pc = "end"

W16_BothCountersUp ==
  /\ closerPc = "wait"
  /\ wg = NumCourses
  /\ \E w \in Courses : wk[w].wg2 = 2 /\ wk[w].pc = "wait2"

\* C17: with an empty course list no worker is ever started and wg stays 0,
\* so the closing goroutine's wg.Wait returns at once; under fair scheduling
\* ch is closed, the range loop ends and _main returns with nothing printed.
C17_EmptyCourseListEnds ==
  /\ [](courseIds = <<>> =>
          /\ wg = 0
          /\ wk = <<>>
          /\ chk = <<>>
          /\ printed = <<>>
          /\ proc # "exit1"
          /\ (closerPc = "wait" => ENABLED CloserClose))
  /\ ((courseIds = <<>>) ~>
        (proc = "exit0" /\ closed /\ closerPc = "end" /\ printed = <<>>))

W17_EndedWithoutCourses ==
  /\ courseIds = <<>>
  /\ mainPc = "return"
  /\ proc = "exit0"
  /\ closed

\* src/trace/main.go:80-88, the second concurrent variant: the goroutine of
\* the assignment k of course w is passed that assignment as its argument c
\* and sends it on ch when isCourseworkVisible (src/trace/main.go:92-120, the
\* same function) returns (true, nil)
TraceSends(w, k) ==
  \E c \in {CourseWork(w, k)} :
    \E r \in {isCourseworkVisible(c, clock[1], clock[1], loc, Submissions(c))} :
      r.visible /\ ~r.err

\* the lines the second variant has printed for the assignment k of course w
\* when its run has ended by returning from _main (src/trace/main.go:169-180)
TracePrinted(w, k) == IF TraceSends(w, k) THEN 1 ELSE 0

\* C18: on the same listings, submissions and clock, the program of
\* src/main.go prints for each assignment no more lines than the second
\* variant can print, its run that has returned from _main has printed exactly
\* the lines the second variant's has, and it ends through log.Fatalf only
\* when a listing fails, as the second variant does.
C18_VariantsAgree ==
  /\ \A w \in Courses : \A k \in Work(w) : printed[w][k] <= TracePrinted(w, k)
  /\ proc = "exit0" =>
       /\ NoListingError
       /\ \A w \in Courses : \A k \in Work(w) : printed[w][k] = TracePrinted(w, k)
  /\ proc = "exit1" => ~NoListingError

\* the assignments the sequential program has printed
SeqPrinted == {seq.out[n] : n \in 1..Len(seq.out)}

\* the submission lookup of the assignment k of course w fails or answers
\* with a TURNED_IN record
TurnedInOrFails(w, k) ==
  LookupFails(w, k) \/ anyTurnedIn(Submissions(CourseWork(w, k)))

\* C19: when every listing succeeds and every due date parses, each
\* assignment the concurrent program prints is one the sequential program
\* has printed, and when the concurrent run has ended the assignments the
\* sequential program printed and the concurrent did not are exactly those
\* whose submission lookup fails or holds a TURNED_IN record.
C19_ConcurrentWithinSequential ==
  (NoListingError /\ \A w \in Courses : \A k \in Work(w) : ~BadDue(w, k)) =>
    /\ SeqEnded => seq.pc = "done"
    /\ \A w \in Courses : \A k \in Work(w) :
         printed[w][k] > 0 => <<w, k>> \in SeqPrinted
    /\ proc = "exit0" =>
         \A w \in Courses : \A k \in Work(w) :
           <<w, k>> \in SeqPrinted =>
             (printed[w][k] = 0 <=> TurnedInOrFails(w, k))
====
